---- MODULE Spec2Model ----
(***************************************************************************)
(* Model of src/plugins/store.js, the global state store of the            *)
(* ADR-Manager: the list of added repositories, the currently edited ADR,  *)
(* the mode, the local-storage snapshot and the events the store emits.    *)
(*                                                                         *)
(* JavaScript objects have identity.  The heap is modelled by two          *)
(* sequences, adrObjs and repoObjs; a reference is an index into them and  *)
(* 0 is the reference-typed `undefined`.  An object is a function from its *)
(* own property names to values, so that _.has(o, k) is k \in DOMAIN o.    *)
(* Strings the code computes with (paths, markdown) are sequences of       *)
(* one-character strings; names that are only compared are TLA+ strings.   *)
(***************************************************************************)
EXTENDS Integers, Sequences, FiniteSets, TLC

VARIABLES adrObjs, repoObjs, addedRepositories, currentRepository,
          currentBranch, currentlyEditedAdr, mode, localStorage,
          emitted, lastOpenAdrEvent, lastCall, changes

vars == <<adrObjs, repoObjs, addedRepositories, currentRepository,
          currentBranch, currentlyEditedAdr, mode, localStorage,
          emitted, lastOpenAdrEvent, lastCall, changes>>

(***************************************************************************)
(* Bounds of the model.                                                    *)
(***************************************************************************)
\* how many calls of createNewAdr, deleteAdr and updateMdOfCurrentAdr, the
\* methods that change the content of a repository, one page session makes
MaxChanges == 2

(***************************************************************************)
(* JavaScript values.                                                      *)
(***************************************************************************)
\* `undefined` where a reference (to an ADR or a repository) is expected
undefined == 0
\* `undefined` where a markdown string is expected (originalMd: undefined)
undefinedMd == <<"undefined">>
\* `undefined` where a branch name is expected
undefinedBranch == "undefined"

Min(a, b) == IF a < b THEN a ELSE b
Max(a, b) == IF a > b THEN a ELSE b

\* Array.prototype.includes
includes(arr, x) == \E i \in 1..Len(arr) : arr[i] = x

\* Array.prototype.findIndex: 0-based index of the first match, else -1
findIndex(arr, Test(_)) ==
    IF \E i \in 1..Len(arr) : Test(arr[i])
    THEN (CHOOSE i \in 1..Len(arr) :
            Test(arr[i]) /\ \A j \in 1..(i-1) : ~Test(arr[j])) - 1
    ELSE -1

\* Array.prototype.find on an array of references
find(arr, Test(_)) ==
    LET i == findIndex(arr, Test) IN IF i = -1 THEN undefined ELSE arr[i+1]

\* Array.prototype.filter
filter(arr, Test(_)) == SelectSeq(arr, Test)

\* Array.prototype.splice(start, deleteCount, ...items): the array after the
\* call.  A negative start counts from the end of the array.
spliceStart(arr, start) ==
    IF start < 0 THEN Max(Len(arr) + start, 0) ELSE Min(start, Len(arr))
spliceCount(arr, start, deleteCount) ==
    Min(Max(deleteCount, 0), Len(arr) - spliceStart(arr, start))
splice(arr, start, deleteCount, items) ==
    LET s == spliceStart(arr, start)
        c == spliceCount(arr, start, deleteCount)
    IN  SubSeq(arr, 1, s) \o items \o SubSeq(arr, s + c + 1, Len(arr))
\* ... and the array of removed elements splice returns
spliced(arr, start, deleteCount) ==
    LET s == spliceStart(arr, start)
        c == spliceCount(arr, start, deleteCount)
    IN  SubSeq(arr, s + 1, s + c)

(***************************************************************************)
(* Strings as sequences of characters.                                     *)
(***************************************************************************)
\* String.prototype.split(sep) for a one-character separator
RECURSIVE split(_, _)
split(str, sep) ==
    IF \E i \in 1..Len(str) : str[i] = sep
    THEN LET i == CHOOSE k \in 1..Len(str) :
                    str[k] = sep /\ \A j \in 1..(k-1) : str[j] # sep
         IN  <<SubSeq(str, 1, i - 1)>> \o split(SubSeq(str, i + 1, Len(str)), sep)
    ELSE <<str>>

\* Array.prototype.join(sep)
RECURSIVE join(_, _)
join(parts, sep) ==
    IF parts = <<>> THEN <<>>
    ELSE IF Len(parts) = 1 THEN parts[1]
    ELSE parts[1] \o <<sep>> \o join(Tail(parts), sep)

\* Array.prototype.pop: the last element
pop(arr) == arr[Len(arr)]

Digits == <<"0", "1", "2", "3", "4", "5", "6", "7", "8", "9">>

\* Number.prototype.toString for a non-negative integer
RECURSIVE toString(_)
toString(n) ==
    IF n < 10 THEN <<Digits[n + 1]>>
    ELSE toString(n \div 10) \o <<Digits[(n % 10) + 1]>>

\* String.prototype.padStart(targetLength, padChar)
RECURSIVE padStart(_, _, _)
padStart(str, targetLength, padChar) ==
    IF Len(str) >= targetLength THEN str
    ELSE padStart(<<padChar>> \o str, targetLength, padChar)

WhiteSpace == {" ", "\n", "\t"}

\* String.prototype.trim
RECURSIVE trim(_)
trim(str) ==
    IF str = <<>> THEN str
    ELSE IF Head(str) \in WhiteSpace THEN trim(Tail(str))
    ELSE IF str[Len(str)] \in WhiteSpace THEN trim(SubSeq(str, 1, Len(str) - 1))
    ELSE str

\* str.replace(/^#+/, ''): drop the leading run of '#'
RECURSIVE stripHashes(_)
stripHashes(str) ==
    IF str # <<>> /\ Head(str) = "#" THEN stripHashes(Tail(str)) ELSE str

UpperCase == <<"A", "B", "C", "D", "E", "F", "G", "H", "I", "J", "K", "L", "M",
               "N", "O", "P", "Q", "R", "S", "T", "U", "V", "W", "X", "Y", "Z">>
LowerCase == <<"a", "b", "c", "d", "e", "f", "g", "h", "i", "j", "k", "l", "m",
               "n", "o", "p", "q", "r", "s", "t", "u", "v", "w", "x", "y", "z">>

toLowerCase(str) ==
    [i \in 1..Len(str) |->
        IF \E k \in 1..26 : UpperCase[k] = str[i]
        THEN LowerCase[CHOOSE k \in 1..26 : UpperCase[k] = str[i]]
        ELSE str[i]]

\* parser.js naturalCase2snakeCase: the title as a lower-case slug
naturalCase2snakeCase(title) ==
    LET lower == toLowerCase(title)
    IN  [i \in 1..Len(lower) |-> IF lower[i] = " " THEN "-" ELSE lower[i]]

\* parser.js adr2md(new ArchitecturalDecisionRecord()): the boilerplate text
adr2md == <<"#", " ", "\n">>

(***************************************************************************)
(* The objects the environment builds: the repositories a page session     *)
(* fetches and passes to the store, with their ADRs.  Every fetched ADR is *)
(* valid and belongs to one repository.  Repository 3 is a later fetch of  *)
(* repository 1 (same fullName): it still has the file of ADR 1 and no     *)
(* longer the file of ADR 2.  ADR 5 belongs to no repository and lacks     *)
(* originalMd.                                                             *)
(***************************************************************************)
DocsAdr == <<"d", "o", "c", "s", "/", "a", "d", "r", "/">>

PoolAdrs ==
    << [id |-> 0, path |-> DocsAdr \o <<"0", "0", "0", "0", "-", "x", ".", "m", "d">>,
        originalMd |-> <<"x">>, editedMd |-> <<"x">>],
       [id |-> 1, path |-> DocsAdr \o <<"0", "0", "0", "1", "-", "y", ".", "m", "d">>,
        originalMd |-> <<"y">>, editedMd |-> <<"y">>],
       [id |-> 2, path |-> DocsAdr \o <<"0", "0", "0", "2", "-", "z", ".", "m", "d">>,
        originalMd |-> <<"z">>, editedMd |-> <<"z">>],
       [id |-> 0, path |-> DocsAdr \o <<"0", "0", "0", "0", "-", "x", ".", "m", "d">>,
        originalMd |-> <<"x", "x">>, editedMd |-> <<"x", "x">>],
       [id |-> 9, path |-> DocsAdr \o <<"0", "0", "0", "9", "-", "g", ".", "m", "d">>,
        editedMd |-> <<"g">>] >>

PoolRepos ==
    << [proto |-> "Repository", fullName |-> "org/a", activeBranch |-> "main",
        adrs |-> <<1, 2>>],
       [proto |-> "Repository", fullName |-> "org/b", activeBranch |-> "dev",
        adrs |-> <<3>>],
       [proto |-> "Repository", fullName |-> "org/a", activeBranch |-> "next",
        adrs |-> <<4>>] >>

\* arguments the callers pass
FullNames == {"org/a", "org/b", "org/none"}
ModeArgs == {"basic", "advanced", "professional", "bogus"}
MdArgs == { <<"#", " ", "A", " ", "b", "\n", "c">> }

\* the batches passed to addRepositories; <<1, 3>> and <<3, 1>> list the
\* fullName "org/a" twice
BatchArgs == { <<>>, <<1>>, <<2>>, <<3>>, <<1, 2>>, <<1, 3>>, <<3, 1>> }
\* the file names passed to openAdrBy: those of ADR 1 and ADR 2, and a missing one
FileArgs == { <<"0", "0", "0", "0", "-", "x", ".", "m", "d">>,
              <<"0", "0", "0", "1", "-", "y", ".", "m", "d">>,
              <<"n", "o", "n", "e", ".", "m", "d">> }

(***************************************************************************)
(* The store as a value: the data of the Vue instance, the heap, the local *)
(* storage, and what the call in progress has emitted, returned or thrown. *)
(***************************************************************************)
\* data() of the Vue instance, lines 19-25
data(heapAdrs, heapRepos, storage) ==
    [ adrObjs |-> heapAdrs, repoObjs |-> heapRepos, localStorage |-> storage,
      currentRepository |-> undefined,
      currentBranch |-> undefinedBranch,
      currentlyEditedAdr |-> undefined,
      addedRepositories |-> <<>>,
      mode |-> "basic",
      emitted |-> <<>>, ret |-> undefined, threw |-> FALSE ]

\* the store at the start of a call
this ==
    [ adrObjs |-> adrObjs, repoObjs |-> repoObjs, localStorage |-> localStorage,
      currentRepository |-> currentRepository,
      currentBranch |-> currentBranch,
      currentlyEditedAdr |-> currentlyEditedAdr,
      addedRepositories |-> addedRepositories,
      mode |-> mode,
      emitted |-> <<>>, ret |-> undefined, threw |-> FALSE ]

\* this.$emit(event, payload)
emit(s, event) == [s EXCEPT !.emitted = Append(@, event)]

\* localStorage.getItem / setItem; an absent key reads as null
hasItem(storage, key) == key \in DOMAIN storage
setItem(storage, key, value) ==
    [k \in DOMAIN storage \cup {key} |-> IF k = key THEN value ELSE storage[k]]

(***************************************************************************)
(* Validation helpers, lines 265-274.                                      *)
(***************************************************************************)
\* isValidAdr applied to the object itself
isValidAdrObj(obj) ==
    /\ "originalMd" \in DOMAIN obj
    /\ "editedMd" \in DOMAIN obj
    /\ "path" \in DOMAIN obj

\* isValidAdr applied to a reference; _.has(undefined, k) is false
isValidAdr(s, adr) ==
    /\ adr # undefined
    /\ isValidAdrObj(s.adrObjs[adr])

\* repo instanceof Repository
instanceOfRepository(s, repo) == s.repoObjs[repo].proto = "Repository"

isValidRepoList(s, repos) ==
    \A i \in 1..Len(repos) :
        /\ instanceOfRepository(s, repos[i])
        /\ \A j \in 1..Len(s.repoObjs[repos[i]].adrs) :
              isValidAdr(s, s.repoObjs[repos[i]].adrs[j])

(***************************************************************************)
(* JSON.stringify and JSON.parse.  The JSON text is represented by the     *)
(* value it denotes: an array of objects that have no identity and no      *)
(* prototype.  stringify drops the properties whose value is undefined and *)
(* copies an ADR once per array that lists it; parse builds new plain      *)
(* objects on the heap.                                                    *)
(***************************************************************************)
ArrayKeys == {"adrs", "addedAdrs", "deletedAdrs"}

stringifyAdr(s, adr) ==
    LET obj == s.adrObjs[adr]
        keys == { k \in DOMAIN obj : k = "id" \/ obj[k] # undefinedMd }
    IN  [k \in keys |-> obj[k]]

stringifyRepo(s, repo) ==
    LET obj == s.repoObjs[repo]
    IN  [k \in DOMAIN obj \ {"proto"} |->
            IF k \in ArrayKeys
            THEN [i \in 1..Len(obj[k]) |-> stringifyAdr(s, obj[k][i])]
            ELSE obj[k]]

JSONstringify(s, repos) ==
    [i \in 1..Len(repos) |-> stringifyRepo(s, repos[i])]

\* the array property key of a parsed repository, or the empty array
jsonArray(jsonRepo, key) ==
    IF key \in DOMAIN jsonRepo THEN jsonRepo[key] ELSE <<>>

\* the ADR objects one parsed repository puts on the heap
parsedAdrs(jsonRepo) ==
    jsonArray(jsonRepo, "adrs") \o jsonArray(jsonRepo, "addedAdrs")
        \o jsonArray(jsonRepo, "deletedAdrs")

\* the plain object for jsonRepo, its ADRs allocated from reference base + 1
parsedRepo(jsonRepo, base) ==
    LET n1 == Len(jsonArray(jsonRepo, "adrs"))
        n2 == Len(jsonArray(jsonRepo, "addedAdrs"))
    IN  [k \in DOMAIN jsonRepo \cup {"proto"} |->
            IF k = "proto" THEN "Object"
            ELSE IF k = "adrs" THEN [i \in 1..n1 |-> base + i]
            ELSE IF k = "addedAdrs" THEN [i \in 1..n2 |-> base + n1 + i]
            ELSE IF k = "deletedAdrs"
                 THEN [i \in 1..Len(jsonRepo[k]) |-> base + n1 + n2 + i]
            ELSE jsonRepo[k]]

\* JSON.parse(json): the store with the parsed objects on its heap; ret
\* holds the parsed array (of references to the new plain objects)
RECURSIVE JSONparse(_, _)
JSONparse(s, json) ==
    IF json = <<>> THEN [s EXCEPT !.ret = <<>>]
    ELSE LET first == Head(json)
             s1 == [s EXCEPT
                      !.repoObjs = Append(@, parsedRepo(first, Len(s.adrObjs))),
                      !.adrObjs = @ \o parsedAdrs(first)]
             s2 == JSONparse(s1, Tail(json))
         IN  [s2 EXCEPT !.ret = <<Len(s.repoObjs) + 1>> \o @]

(***************************************************************************)
(* The methods of the store, lines 32-254, as functions from the store     *)
(* before the call to the store after it.                                  *)
(***************************************************************************)
fullNameOf(s, repo) == s.repoObjs[repo].fullName
adrsOf(s, repo) == s.repoObjs[repo].adrs

\* lines 58-60
updateLocalStorageRepositories(s) ==
    [s EXCEPT !.localStorage =
        setItem(@, "addedRepositories", JSONstringify(s, s.addedRepositories))]

\* openAdr without the test for the ADR that is already open
openAdrAgain(s, adr) ==
    LET repo == find(s.addedRepositories,
                     LAMBDA r : includes(adrsOf(s, r), adr))
    IN  IF isValidAdr(s, adr) /\ repo # undefined
        THEN emit([s EXCEPT !.currentRepository = repo,
                            !.currentBranch = s.repoObjs[repo].activeBranch,
                            !.currentlyEditedAdr = adr],
                  [event |-> "open-adr", adr |-> adr])
        ELSE s

\* openAdr that leaves currentRepository and currentBranch as they are
openAdrKeepRepository(s, adr) ==
    IF adr # s.currentlyEditedAdr
    THEN LET repo == find(s.addedRepositories,
                          LAMBDA r : includes(adrsOf(s, r), adr))
         IN  IF isValidAdr(s, adr) /\ repo # undefined
             THEN emit([s EXCEPT !.currentlyEditedAdr = adr],
                       [event |-> "open-adr", adr |-> adr])
             ELSE s
    ELSE s

\* openAdr that does not require an added repository to hold the ADR
openAdrUncontained(s, adr) ==
    IF adr # s.currentlyEditedAdr
    THEN LET repo == find(s.addedRepositories,
                          LAMBDA r : includes(adrsOf(s, r), adr))
         IN  IF isValidAdr(s, adr)
             THEN emit([s EXCEPT !.currentRepository = repo,
                                 !.currentBranch =
                                     IF repo = undefined THEN undefinedBranch
                                     ELSE s.repoObjs[repo].activeBranch,
                                 !.currentlyEditedAdr = adr],
                       [event |-> "open-adr", adr |-> adr])
             ELSE s
    ELSE s

\* openAdr that emits nothing
openAdrSilent(s, adr) ==
    IF adr # s.currentlyEditedAdr
    THEN LET repo == find(s.addedRepositories,
                          LAMBDA r : includes(adrsOf(s, r), adr))
         IN  IF isValidAdr(s, adr) /\ repo # undefined
             THEN [s EXCEPT !.currentRepository = repo,
                            !.currentBranch = s.repoObjs[repo].activeBranch,
                            !.currentlyEditedAdr = adr]
             ELSE s
    ELSE s

\* lines 160-175
openAdr(s, adr) ==
    IF adr # s.currentlyEditedAdr
    THEN LET repo == find(s.addedRepositories,
                          LAMBDA r : includes(adrsOf(s, r), adr))
         IN  IF isValidAdr(s, adr) /\ repo # undefined
             THEN emit([s EXCEPT !.currentRepository = repo,
                                 !.currentBranch = s.repoObjs[repo].activeBranch,
                                 !.currentlyEditedAdr = adr],
                       [event |-> "open-adr", adr |-> adr])
             ELSE s
    ELSE s

\* openAnyAdr that takes the last repository that has ADRs
openAnyAdrOfLast(s) ==
    LET reposWithAdrs == filter(s.addedRepositories,
                                LAMBDA r : Len(adrsOf(s, r)) > 0)
    IN  IF Len(reposWithAdrs) > 0
        THEN openAdr(s, adrsOf(s, reposWithAdrs[Len(reposWithAdrs)])[1])
        ELSE s

\* lines 124-130
openAnyAdr(s) ==
    LET reposWithAdrs == filter(s.addedRepositories,
                                LAMBDA r : Len(adrsOf(s, r)) > 0)
    IN  IF Len(reposWithAdrs) > 0
        THEN openAdr(s, adrsOf(s, reposWithAdrs[1])[1])
        ELSE s

\* lines 110-119
assertSomeAdrIsOpened(s) ==
    IF \/ s.currentlyEditedAdr = undefined
       \/ ~isValidAdr(s, s.currentlyEditedAdr)
       \/ ~\E i \in 1..Len(s.addedRepositories) :
              includes(adrsOf(s, s.addedRepositories[i]), s.currentlyEditedAdr)
    THEN openAnyAdr([s EXCEPT !.currentlyEditedAdr = undefined,
                              !.currentRepository = undefined,
                              !.currentBranch = undefinedBranch])
    ELSE s

\* addRepositories that adds the repositories that do not collide before it
\* throws
addRepositoriesPartial(s, repoList) ==
    LET addedNames == [i \in 1..Len(s.addedRepositories) |->
                          fullNameOf(s, s.addedRepositories[i])]
        alreadyAddedRepos ==
            filter(repoList, LAMBDA r : includes(addedNames, fullNameOf(s, r)))
        newRepos ==
            filter(repoList, LAMBDA r : ~includes(addedNames, fullNameOf(s, r)))
    IN  IF Len(alreadyAddedRepos) > 0
        THEN [s EXCEPT !.addedRepositories = @ \o newRepos, !.threw = TRUE]
        ELSE assertSomeAdrIsOpened(
                 updateLocalStorageRepositories(
                     [s EXCEPT !.addedRepositories = @ \o repoList]))

\* lines 66-75
addRepositories(s, repoList) ==
    LET addedNames == [i \in 1..Len(s.addedRepositories) |->
                          fullNameOf(s, s.addedRepositories[i])]
        alreadyAddedRepos ==
            filter(repoList, LAMBDA r : includes(addedNames, fullNameOf(s, r)))
    IN  IF Len(alreadyAddedRepos) > 0
        THEN [s EXCEPT !.threw = TRUE]
        ELSE assertSomeAdrIsOpened(
                 updateLocalStorageRepositories(
                     [s EXCEPT !.addedRepositories = @ \o repoList]))

\* removeRepository without the call of assertSomeAdrIsOpened
removeRepositoryNoRepair(s, repoToRemove) ==
    updateLocalStorageRepositories(
        [s EXCEPT !.addedRepositories =
            filter(@, LAMBDA r : fullNameOf(s, r) # fullNameOf(s, repoToRemove))])

\* removeRepository without the call of updateLocalStorageRepositories
removeRepositoryNoPersist(s, repoToRemove) ==
    assertSomeAdrIsOpened(
        [s EXCEPT !.addedRepositories =
            filter(@, LAMBDA r : fullNameOf(s, r) # fullNameOf(s, repoToRemove))])

\* lines 81-85
removeRepository(s, repoToRemove) ==
    updateLocalStorageRepositories(
        assertSomeAdrIsOpened(
            [s EXCEPT !.addedRepositories =
                filter(@, LAMBDA r : fullNameOf(s, r) # fullNameOf(s, repoToRemove))]))

\* lines 88-96.  With no repository of that name, index is -1, oldRepo is
\* this.addedRepositories[-1], that is undefined, splice(-1, 1, ...) has
\* replaced the last repository, and oldRepo.adrs throws a TypeError.
updateRepository(s, updatedRepository) ==
    LET index == findIndex(s.addedRepositories,
                    LAMBDA r : fullNameOf(s, r) = fullNameOf(s, updatedRepository))
        oldRepo == IF index = -1 THEN undefined ELSE s.addedRepositories[index + 1]
        s1 == [s EXCEPT !.addedRepositories =
                            splice(@, index, 1, <<updatedRepository>>)]
    IN  IF oldRepo = undefined
        THEN [s1 EXCEPT !.threw = TRUE]
        ELSE updateLocalStorageRepositories(
                 IF includes(adrsOf(s1, oldRepo), s1.currentlyEditedAdr)
                 THEN openAdr(s1,
                          find(adrsOf(s1, updatedRepository),
                               LAMBDA a : s1.adrObjs[a].path
                                          = s1.adrObjs[s1.currentlyEditedAdr].path))
                 ELSE s1)

\* lines 138-153
openAdrBy(s, repoFullName, adrName) ==
    LET repo == find(s.addedRepositories,
                     LAMBDA r : fullNameOf(s, r) = repoFullName)
        adr == IF repo # undefined
               THEN find(adrsOf(s, repo),
                         LAMBDA a : pop(split(s.adrObjs[a].path, "/")) = adrName)
               ELSE undefined
    IN  IF adr # undefined
        THEN [openAdr(s, adr) EXCEPT !.ret = adr]
        ELSE [s EXCEPT !.ret = adr]

\* updateMdOfCurrentAdr that renames the file of every ADR, locally added or not
updateMdOfCurrentAdrRenaming(s, md) ==
    IF s.currentlyEditedAdr = undefined
    THEN [s EXCEPT !.threw = TRUE]
    ELSE LET cur == s.currentlyEditedAdr
             s1 == [s EXCEPT !.adrObjs[cur].editedMd = md]
             path == split(s1.adrObjs[cur].path, "/")
             title == trim(stripHashes(split(md, "\n")[1]))
             name == padStart(toString(s1.adrObjs[cur].id), 4, "0") \o <<"-">>
                       \o naturalCase2snakeCase(title) \o <<".", "m", "d">>
         IN  updateLocalStorageRepositories(
                 [s1 EXCEPT !.adrObjs[cur].path =
                     join([path EXCEPT ![Len(path)] = name], "/")])

\* lines 183-195.  With no ADR open, the first assignment throws a TypeError.
updateMdOfCurrentAdr(s, md) ==
    IF s.currentlyEditedAdr = undefined
    THEN [s EXCEPT !.threw = TRUE]
    ELSE LET cur == s.currentlyEditedAdr
             s1 == [s EXCEPT !.adrObjs[cur].editedMd = md]
             repo == s1.currentRepository
             path == split(s1.adrObjs[cur].path, "/")
             title == trim(stripHashes(split(md, "\n")[1]))
             name == padStart(toString(s1.adrObjs[cur].id), 4, "0") \o <<"-">>
                       \o naturalCase2snakeCase(title) \o <<".", "m", "d">>
         IN  updateLocalStorageRepositories(
                 IF /\ repo # undefined
                    /\ "addedAdrs" \in DOMAIN s1.repoObjs[repo]
                    /\ includes(s1.repoObjs[repo].addedAdrs, cur)
                 THEN [s1 EXCEPT !.adrObjs[cur].path =
                          join([path EXCEPT ![Len(path)] = name], "/")]
                 ELSE s1)

\* Math.max(...values, -1)
RECURSIVE mathMax(_)
mathMax(values) ==
    IF values = <<>> THEN -1 ELSE Max(Head(values), mathMax(Tail(values)))

\* a property of an object that may not have it yet
withProperty(obj, key, value) ==
    [k \in DOMAIN obj \cup {key} |-> IF k = key THEN value ELSE obj[k]]

\* the next id taken from the number of ADRs instead of the highest id
newAdrIdByCount(s, repo) == Len(adrsOf(s, repo))

\* the id createNewAdr gives the new ADR, line 207
newAdrId(s, repo) ==
    mathMax([i \in 1..Len(adrsOf(s, repo)) |-> s.adrObjs[adrsOf(s, repo)[i]].id]) + 1

\* createNewAdr that writes nothing to the local storage
createNewAdrNoPersist(s, repo) ==
    IF includes(s.addedRepositories, repo)
    THEN LET md == adr2md
             id == newAdrId(s, repo)
             newAdr == [originalMd |-> undefinedMd,
                        editedMd |-> md,
                        id |-> id,
                        path |-> DocsAdr \o padStart(toString(id), 4, "0")
                                   \o <<"-", "u", "n", "n", "a", "m", "e", "d",
                                        ".", "m", "d">>]
             ref == Len(s.adrObjs) + 1
             obj == s.repoObjs[repo]
             addedAdrs == IF "addedAdrs" \in DOMAIN obj THEN obj.addedAdrs ELSE <<>>
         IN  [s EXCEPT !.adrObjs = Append(@, newAdr),
                       !.repoObjs[repo] =
                           withProperty([obj EXCEPT !.adrs = Append(@, ref)],
                                        "addedAdrs", Append(addedAdrs, ref)),
                       !.ret = ref]
    ELSE [s EXCEPT !.ret = undefined]

\* lines 204-223
createNewAdr(s, repo) ==
    IF includes(s.addedRepositories, repo)
    THEN LET md == adr2md
             id == newAdrId(s, repo)
             newAdr == [originalMd |-> undefinedMd,
                        editedMd |-> md,
                        id |-> id,
                        path |-> DocsAdr \o padStart(toString(id), 4, "0")
                                   \o <<"-", "u", "n", "n", "a", "m", "e", "d",
                                        ".", "m", "d">>]
             ref == Len(s.adrObjs) + 1
             obj == s.repoObjs[repo]
             addedAdrs == IF "addedAdrs" \in DOMAIN obj THEN obj.addedAdrs ELSE <<>>
         IN  [s EXCEPT !.adrObjs = Append(@, newAdr),
                       !.repoObjs[repo] =
                           withProperty([obj EXCEPT !.adrs = Append(@, ref)],
                                        "addedAdrs", Append(addedAdrs, ref)),
                       !.ret = ref]
    ELSE [updateLocalStorageRepositories(s) EXCEPT !.ret = undefined]

\* deleteAdr that assigns to deletedAdrs the array concat returns
deleteAdrRetaining(s, adr, repo) ==
    LET obj == s.repoObjs[repo]
        adrIndex == findIndex(obj.adrs, LAMBDA a : a = adr)
        deletedAdrs == IF "deletedAdrs" \in DOMAIN obj THEN obj.deletedAdrs ELSE <<>>
    IN  assertSomeAdrIsOpened(
            [s EXCEPT !.repoObjs[repo] =
                withProperty([obj EXCEPT !.adrs = splice(@, adrIndex, 1, <<>>)],
                             "deletedAdrs",
                             deletedAdrs \o spliced(obj.adrs, adrIndex, 1))])

\* lines 231-238.  The array that deletedAdrs.concat(...) returns is dropped.
deleteAdr(s, adr, repo) ==
    LET obj == s.repoObjs[repo]
        adrIndex == findIndex(obj.adrs, LAMBDA a : a = adr)
        deletedAdrs == IF "deletedAdrs" \in DOMAIN obj THEN obj.deletedAdrs ELSE <<>>
    IN  assertSomeAdrIsOpened(
            [s EXCEPT !.repoObjs[repo] =
                withProperty([obj EXCEPT !.adrs = splice(@, adrIndex, 1, <<>>)],
                             "deletedAdrs", deletedAdrs)])

Modes == {"basic", "advanced", "professional"}

\* setMode without the test of the mode
setModeUnchecked(s, m) ==
    emit([s EXCEPT !.mode = m,
                   !.localStorage = setItem(@, "mode", m)],
         [event |-> "set-mode", mode |-> m])

\* lines 244-253
setMode(s, m) ==
    IF m \in Modes
    THEN emit([s EXCEPT !.mode = m,
                        !.localStorage = setItem(@, "mode", m)],
              [event |-> "set-mode", mode |-> m])
    ELSE s

\* the mode of a new store, whatever is stored
loadedModeDefault(storage) == "basic"

\* localStorage.getItem('mode') || 'basic', line 50
loadedMode(storage) ==
    IF hasItem(storage, "mode") /\ storage["mode"] # "" THEN storage["mode"]
    ELSE "basic"

\* lines 35-51.  Parsed objects the store does not adopt are garbage and are
\* not kept on the heap.
reload(s) ==
    LET parsed == JSONparse(s, s.localStorage["addedRepositories"])
        addedRepos == parsed.ret
        s1 == IF hasItem(s.localStorage, "addedRepositories")
                 /\ isValidRepoList(parsed, addedRepos)
              THEN addRepositories([parsed EXCEPT !.ret = undefined], addedRepos)
              ELSE s
    IN  IF s1.threw THEN s1
        ELSE [s1 EXCEPT !.mode = loadedMode(s1.localStorage)]

\* lines 18-30: a page load constructs the store over the stored data
created(storage) == reload(data(PoolAdrs, PoolRepos, storage))

(***************************************************************************)
(* The state machine.  Every action is one call of a method by the user    *)
(* interface; calls run to completion one after the other.  lastCall       *)
(* records the call, what it returned and whether it threw; emitted holds  *)
(* the events of that call, in order, and lastOpenAdrEvent the ADR of the  *)
(* last 'open-adr' event the store of this page has emitted.               *)
(***************************************************************************)
ContentChanging == {"createNewAdr", "deleteAdr", "updateMdOfCurrentAdr"}

\* the ADR a listener to 'open-adr' has received last, line 168: the ADR of
\* the last 'open-adr' event among events, or before when there is none
lastOpened(events, before) ==
    LET opened == SelectSeq(events, LAMBDA e : e.event = "open-adr")
    IN  IF opened = <<>> THEN before ELSE opened[Len(opened)].adr

Returns(s, call) ==
    /\ lastCall.op = "idle"
    /\ adrObjs' = s.adrObjs
    /\ repoObjs' = s.repoObjs
    /\ addedRepositories' = s.addedRepositories
    /\ currentRepository' = s.currentRepository
    /\ currentBranch' = s.currentBranch
    /\ currentlyEditedAdr' = s.currentlyEditedAdr
    /\ mode' = s.mode
    /\ localStorage' = s.localStorage
    /\ emitted' = s.emitted
    /\ lastOpenAdrEvent' =
          lastOpened(s.emitted,
                     IF call.op = "created" THEN undefined ELSE lastOpenAdrEvent)
    /\ lastCall' = [call EXCEPT !.ret = s.ret, !.threw = s.threw]
    /\ changes' = IF call.op = "created" THEN 0
                  ELSE IF call.op \in ContentChanging THEN changes + 1
                  ELSE changes

Call(op) ==
    [op |-> op, adr |-> undefined, repo |-> undefined, repoList |-> <<>>,
     name |-> "", file |-> <<>>, md |-> <<>>, ret |-> undefined, threw |-> FALSE]

\* The caller has taken the result of the call and the events have been
\* delivered: the user interface waits for its next event.
Idle ==
    /\ lastCall.op # "idle"
    /\ lastCall' = Call("idle")
    /\ emitted' = <<>>
    /\ UNCHANGED <<adrObjs, repoObjs, addedRepositories, currentRepository,
                   currentBranch, currentlyEditedAdr, mode, localStorage,
                   lastOpenAdrEvent, changes>>

AdrRefs == 1..Len(adrObjs)
RepoRefs == 1..Len(repoObjs)

\* what a previous page session may have left in the local storage
PriorStorages ==
    LET fresh == data(PoolAdrs, PoolRepos, <<>>)
        lists == { <<>>, JSONstringify(fresh, <<1>>) }
    IN  { <<>> }
        \cup { setItem(<<>>, "addedRepositories", l) : l \in lists }
        \cup { setItem(<<>>, "mode", m) : m \in Modes }
        \cup { setItem(setItem(<<>>, "mode", m), "addedRepositories", l) :
                  m \in Modes, l \in lists }

\* the state after the construction of the store over one of the storages
InitOver(storages) ==
    \E storage \in storages :
        LET s == created(storage)
        IN  /\ adrObjs = s.adrObjs
            /\ repoObjs = s.repoObjs
            /\ addedRepositories = s.addedRepositories
            /\ currentRepository = s.currentRepository
            /\ currentBranch = s.currentBranch
            /\ currentlyEditedAdr = s.currentlyEditedAdr
            /\ mode = s.mode
            /\ localStorage = s.localStorage
            /\ emitted = s.emitted
            /\ lastOpenAdrEvent = lastOpened(s.emitted, undefined)
            /\ lastCall = Call("created")
            /\ changes = 0

\* the page is loaded again: a new store over the same local storage
Created ==
    Returns(created(localStorage), Call("created"))

AddRepositories ==
    \E repoList \in BatchArgs :
        Returns(addRepositories(this, repoList),
                [Call("addRepositories") EXCEPT !.repoList = repoList])

RemoveRepository ==
    \E repo \in RepoRefs :
        Returns(removeRepository(this, repo),
                [Call("removeRepository") EXCEPT !.repo = repo])

\* The callers pass a repository whose fullName is among the added ones.
UpdateRepository ==
    \E repo \in RepoRefs :
        /\ \E i \in 1..Len(addedRepositories) :
              repoObjs[addedRepositories[i]].fullName = repoObjs[repo].fullName
        /\ Returns(updateRepository(this, repo),
                [Call("updateRepository") EXCEPT !.repo = repo])

AssertSomeAdrIsOpened ==
    Returns(assertSomeAdrIsOpened(this), Call("assertSomeAdrIsOpened"))

OpenAnyAdr ==
    Returns(openAnyAdr(this), Call("openAnyAdr"))

OpenAdrBy ==
    \E name \in FullNames, file \in FileArgs :
        Returns(openAdrBy(this, name, file),
                [Call("openAdrBy") EXCEPT !.name = name, !.file = file])

OpenAdr ==
    \E adr \in AdrRefs \cup {undefined} :
        Returns(openAdr(this, adr), [Call("openAdr") EXCEPT !.adr = adr])

UpdateMdOfCurrentAdr ==
    \E md \in MdArgs :
        /\ changes < MaxChanges
        /\ Returns(updateMdOfCurrentAdr(this, md),
                [Call("updateMdOfCurrentAdr") EXCEPT !.md = md])

CreateNewAdr ==
    \E repo \in RepoRefs :
        /\ changes < MaxChanges
        /\ Returns(createNewAdr(this, repo),
                   [Call("createNewAdr") EXCEPT !.repo = repo])

\* The callers delete from a repository the store shows, that is an added one.
DeleteAdr ==
    \E adr \in AdrRefs, repo \in RepoRefs :
        /\ changes < MaxChanges
        /\ includes(addedRepositories, repo)
        /\ Returns(deleteAdr(this, adr, repo),
                [Call("deleteAdr") EXCEPT !.adr = adr, !.repo = repo])

SetMode ==
    \E m \in ModeArgs :
        Returns(setMode(this, m), [Call("setMode") EXCEPT !.name = m])

UpdateLocalStorageRepositories ==
    Returns(updateLocalStorageRepositories(this),
            Call("updateLocalStorageRepositories"))

Next ==
    \/ Idle
    \/ Created
    \/ AddRepositories
    \/ RemoveRepository
    \/ UpdateRepository
    \/ AssertSomeAdrIsOpened
    \/ OpenAnyAdr
    \/ OpenAdrBy
    \/ OpenAdr
    \/ UpdateMdOfCurrentAdr
    \/ CreateNewAdr
    \/ DeleteAdr
    \/ SetMode
    \/ UpdateLocalStorageRepositories

Init == InitOver(PriorStorages)

Spec == Init /\ [][Next]_vars

(***************************************************************************)
(* Two parts of the state do not interact: setMode reads and writes only   *)
(* mode and the 'mode' item of the local storage, which no other method    *)
(* but reload touches.  SpecStore is the store in one page session of a    *)
(* first visit (empty local storage) under the methods that work on the    *)
(* repositories and the selection; SpecSession is the store across page    *)
(* loads under the methods that write the local storage.                   *)
(***************************************************************************)
NextStore ==
    \/ Idle
    \/ AddRepositories
    \/ RemoveRepository
    \/ UpdateRepository
    \/ AssertSomeAdrIsOpened
    \/ OpenAnyAdr
    \/ OpenAdrBy
    \/ OpenAdr
    \/ UpdateMdOfCurrentAdr
    \/ CreateNewAdr
    \/ DeleteAdr

SpecStore == InitOver({ <<>> }) /\ [][NextStore]_vars

NextSession ==
    \/ Idle
    \/ Created
    \/ AddRepositories
    \/ RemoveRepository
    \/ CreateNewAdr
    \/ DeleteAdr
    \/ SetMode
    \/ UpdateLocalStorageRepositories

SpecSession == Init /\ [][NextSession]_vars

(***************************************************************************)
(* The properties.  A property of one call is an action property: the      *)
(* unprimed variables are the store before the call, the primed ones the   *)
(* store after it, and lastCall' is the call with its result.              *)
(***************************************************************************)
\* the fullNames of the added repositories
AddedNames == { repoObjs[addedRepositories[i]].fullName :
                  i \in 1..Len(addedRepositories) }
\* the added repositories whose adrs contain adr
Containing(adr) == { addedRepositories[i] : i \in 1..Len(addedRepositories) }
                     \cap { r \in RepoRefs : includes(repoObjs[r].adrs, adr) }
ContainingAfter(adr) ==
    { r \in 1..Len(repoObjs') :
        /\ includes(addedRepositories', r)
        /\ includes(repoObjs'[r].adrs, adr) }
ValidAdrs == { a \in AdrRefs : {"originalMd", "editedMd", "path"} \subseteq DOMAIN adrObjs[a] }
OpenAdrEvent(adr) == [event |-> "open-adr", adr |-> adr]

\* C1: whenever an ADR is open, it is a valid ADR held by some added
\* repository, currentRepository is that added repository, and currentBranch is
\* that repository's activeBranch.
C1_SelectionInvariant ==
    currentlyEditedAdr # undefined =>
        /\ currentlyEditedAdr \in ValidAdrs
        /\ Containing(currentlyEditedAdr) # {}
        /\ currentRepository \in Containing(currentlyEditedAdr)
        /\ currentBranch = repoObjs[currentRepository].activeBranch

\* C2: addRepositories with a batch in which some fullName is already added
\* throws and leaves the added repositories, the stored snapshot, the selection
\* and every repository object as they were.
C2_AddRepositoriesAtomic ==
    [][ ( /\ lastCall'.op = "addRepositories"
          /\ \E i \in 1..Len(lastCall'.repoList) :
                repoObjs[lastCall'.repoList[i]].fullName \in AddedNames )
        => /\ lastCall'.threw
           /\ UNCHANGED <<addedRepositories, localStorage, currentlyEditedAdr,
                          currentRepository, currentBranch, repoObjs, adrObjs>>
      ]_vars

\* a batch was rejected although one of its repositories did not collide
C2_Witness ==
    /\ lastCall.op = "addRepositories"
    /\ lastCall.threw
    /\ \E i \in 1..Len(lastCall.repoList) :
          repoObjs[lastCall.repoList[i]].fullName \notin AddedNames
    /\ currentlyEditedAdr # undefined

\* C3: openAdr(a) for a valid ADR a held by an added repository makes a the
\* open ADR, currentRepository the added repository that holds a, and
\* currentBranch that repository's activeBranch.
C3_OpenAdrOpens ==
    [][ ( /\ lastCall'.op = "openAdr"
          /\ lastCall'.adr \in ValidAdrs
          /\ Containing(lastCall'.adr) # {} )
        => /\ currentlyEditedAdr' = lastCall'.adr
           /\ Containing(lastCall'.adr) = {currentRepository'}
           /\ currentBranch' = repoObjs[currentRepository'].activeBranch
      ]_vars

\* openAdr has replaced the open ADR by one of the second added repository
C3_Witness ==
    /\ lastCall.op = "openAdr"
    /\ emitted = <<OpenAdrEvent(lastCall.adr)>>
    /\ currentlyEditedAdr = lastCall.adr
    /\ Len(addedRepositories) >= 2
    /\ currentRepository = addedRepositories[2]
    /\ currentRepository # addedRepositories[1]

\* C4: openAdr(a) when a is the open ADR changes neither the selection nor the
\* added repositories nor the local storage, and emits nothing.
C4_OpenSameAdrIsNoOp ==
    [][ ( /\ lastCall'.op = "openAdr"
          /\ lastCall'.adr = currentlyEditedAdr )
        => /\ UNCHANGED <<currentlyEditedAdr, currentRepository, currentBranch,
                          addedRepositories, localStorage, repoObjs, adrObjs>>
           /\ emitted' = <<>>
      ]_vars

\* openAdr was called with the ADR that is open
C4_Witness ==
    /\ lastCall.op = "openAdr"
    /\ lastCall.adr # undefined
    /\ lastCall.adr = currentlyEditedAdr
    /\ emitted = <<>>

\* C5: removeRepository(r), when the open ADR is held by an added repository
\* with r's fullName, leaves no repository of that name; afterwards either
\* another valid ADR held by a remaining repository is open, or no remaining
\* repository has an ADR and the three selection fields are cleared.
C5_RemoveRepositoryRepairs ==
    [][ ( /\ lastCall'.op = "removeRepository"
          /\ currentlyEditedAdr # undefined
          /\ \E r \in Containing(currentlyEditedAdr) :
                repoObjs[r].fullName = repoObjs[lastCall'.repo].fullName )
        => /\ \A i \in 1..Len(addedRepositories') :
                repoObjs'[addedRepositories'[i]].fullName
                    # repoObjs[lastCall'.repo].fullName
           /\ \/ /\ currentlyEditedAdr' # undefined
                 /\ currentlyEditedAdr' # currentlyEditedAdr
                 /\ {"originalMd", "editedMd", "path"}
                        \subseteq DOMAIN adrObjs'[currentlyEditedAdr']
                 /\ currentRepository' \in ContainingAfter(currentlyEditedAdr')
                 /\ currentBranch' = repoObjs'[currentRepository'].activeBranch
              \/ /\ \A i \in 1..Len(addedRepositories') :
                       repoObjs'[addedRepositories'[i]].adrs = <<>>
                 /\ currentlyEditedAdr' = undefined
                 /\ currentRepository' = undefined
                 /\ currentBranch' = undefinedBranch
      ]_vars

\* removeRepository took the repository of the open ADR away and the store
\* opened an ADR of a remaining repository
C5_Witness ==
    /\ lastCall.op = "removeRepository"
    /\ ~includes(addedRepositories, lastCall.repo)
    /\ currentlyEditedAdr # undefined
    /\ emitted = <<OpenAdrEvent(currentlyEditedAdr)>>
    /\ currentRepository \in Containing(currentlyEditedAdr)

\* the number a sequence of decimal digits denotes
RECURSIVE DecimalValue(_)
DecimalValue(digits) ==
    IF digits = <<>> THEN 0
    ELSE 10 * DecimalValue(SubSeq(digits, 1, Len(digits) - 1))
         + ((CHOOSE d \in 1..10 : Digits[d] = digits[Len(digits)]) - 1)
\* the greatest element of a non-empty set of integers
Greatest(S) == CHOOSE m \in S : \A x \in S : x <= m
\* path is docs/adr/NNNN-unnamed.md with NNNN four decimal digits denoting id
IsUnnamedPath(path, id) ==
    /\ Len(path) = 24
    /\ SubSeq(path, 1, 9) = <<"d", "o", "c", "s", "/", "a", "d", "r", "/">>
    /\ \A i \in 10..13 : \E d \in 1..10 : Digits[d] = path[i]
    /\ DecimalValue(SubSeq(path, 10, 13)) = id
    /\ SubSeq(path, 14, 24)
         = <<"-", "u", "n", "n", "a", "m", "e", "d", ".", "m", "d">>

\* C6: createNewAdr(repo) for an added repository returns a new record whose
\* id is one more than the highest id among repo.adrs, or 0 when repo.adrs is
\* empty, and whose path is docs/adr/NNNN-unnamed.md, NNNN being the id padded
\* with zeros to four digits.
C6_CreateNewAdrId ==
    [][ ( /\ lastCall'.op = "createNewAdr"
          /\ includes(addedRepositories, lastCall'.repo) )
        => LET ids == { adrObjs[repoObjs[lastCall'.repo].adrs[i]].id :
                          i \in 1..Len(repoObjs[lastCall'.repo].adrs) }
               new == lastCall'.ret
           IN  /\ new \in 1..Len(adrObjs')
               /\ new \notin AdrRefs
               /\ adrObjs'[new].id = IF ids = {} THEN 0 ELSE 1 + Greatest(ids)
               /\ IsUnnamedPath(adrObjs'[new].path, adrObjs'[new].id)
               /\ repoObjs'[lastCall'.repo].adrs
                    = Append(repoObjs[lastCall'.repo].adrs, new)
      ]_vars

\* createNewAdr gave the id 3 to the second ADR of an added repository whose
\* only other ADR has the id 2
C6_Witness ==
    /\ lastCall.op = "createNewAdr"
    /\ lastCall.ret # undefined
    /\ includes(addedRepositories, lastCall.repo)
    /\ Len(repoObjs[lastCall.repo].adrs) = 2
    /\ adrObjs[repoObjs[lastCall.repo].adrs[1]].id = 2
    /\ IsUnnamedPath(adrObjs[lastCall.ret].path, 3)
    /\ adrObjs[lastCall.ret].id = 3

\* the repositories of a JSON array by fullName, their ADRs by id, path and
\* content
Essence(json) ==
    [i \in 1..Len(json) |->
        [fullName |-> json[i].fullName,
         adrs |-> [j \in 1..Len(json[i].adrs) |->
                     [k \in DOMAIN json[i].adrs[j]
                              \cap {"id", "path", "originalMd", "editedMd"}
                        |-> json[i].adrs[j][k]]]]]
\* the stored repositories pass the validation of reload
StoredIsValid ==
    /\ hasItem(localStorage, "addedRepositories")
    /\ LET parsed == JSONparse(data(PoolAdrs, PoolRepos, localStorage),
                               localStorage["addedRepositories"])
       IN  isValidRepoList(parsed, parsed.ret)

C8_SetMode ==
    /\ [](mode \in {"basic", "advanced", "professional"})
    /\ [][ lastCall'.op = "setMode"
           => IF lastCall'.name \in {"basic", "advanced", "professional"}
              THEN /\ mode' = lastCall'.name
                   /\ hasItem(localStorage', "mode")
                   /\ localStorage'["mode"] = lastCall'.name
                   /\ emitted' = <<[event |-> "set-mode", mode |-> lastCall'.name]>>
              ELSE /\ UNCHANGED <<mode, localStorage>>
                   /\ emitted' = <<>>
         ]_vars

\* setMode refused an unrecognized mode in a store whose mode had been set
C8_Witness ==
    /\ lastCall.op = "setMode"
    /\ lastCall.name = "bogus"
    /\ mode = "professional"
    /\ localStorage["mode"] = "professional"
    /\ emitted = <<>>

\* the last segment of the path of an ADR
FileOf(adr) == pop(split(adrObjs[adr].path, "/"))

\* C9: openAdrBy(repoFullName, adrName), whenever an added repository of that
\* fullName has an ADR whose file is adrName, returns such an ADR; and the ADR
\* it returns is the open ADR, currentRepository being of that fullName.
C9_OpenAdrByFinds ==
    [][ lastCall'.op = "openAdrBy"
        => LET matches == { a \in AdrRefs :
                              /\ FileOf(a) = lastCall'.file
                              /\ \E r \in Containing(a) :
                                    repoObjs[r].fullName = lastCall'.name }
           IN  /\ matches # {} => lastCall'.ret \in matches
               /\ lastCall'.ret # undefined
                    => /\ currentlyEditedAdr' = lastCall'.ret
                       /\ currentRepository' # undefined
                       /\ repoObjs[currentRepository'].fullName = lastCall'.name
      ]_vars

\* C10: updateRepository(updated), when the repository it replaces holds the
\* open ADR, leaves open the ADR of updated with the path of that ADR, or no
\* ADR if updated has no ADR with that path.
C10_UpdateRepositoryReopens ==
    [][ ( /\ lastCall'.op = "updateRepository"
          /\ currentlyEditedAdr # undefined
          /\ LET index == CHOOSE i \in 1..Len(addedRepositories) :
                    /\ repoObjs[addedRepositories[i]].fullName
                         = repoObjs[lastCall'.repo].fullName
                    /\ \A j \in 1..(i - 1) :
                          repoObjs[addedRepositories[j]].fullName
                            # repoObjs[lastCall'.repo].fullName
             IN  includes(repoObjs[addedRepositories[index]].adrs,
                          currentlyEditedAdr) )
        => LET samePath == { a \in AdrRefs :
                               /\ includes(repoObjs[lastCall'.repo].adrs, a)
                               /\ adrObjs[a].path = adrObjs[currentlyEditedAdr].path }
           IN  IF samePath # {}
               THEN currentlyEditedAdr' \in samePath
               ELSE currentlyEditedAdr' = undefined
      ]_vars

\* C11: no two of the added repositories have the same fullName.
C11_FullNameUnique ==
    \A i, j \in 1..Len(addedRepositories) :
        repoObjs[addedRepositories[i]].fullName
            = repoObjs[addedRepositories[j]].fullName
        => i = j

\* the ADRs of the added repositories named name whose file is file
Matching(name, file) ==
    { a \in AdrRefs :
        /\ FileOf(a) = file
        /\ \E r \in Containing(a) : repoObjs[r].fullName = name }

\* C12: openAdr with an ADR that is invalid or that no added repository holds,
\* and openAdrBy with a name and a file that match no ADR of an added
\* repository, do not throw, leave the selection, the added repositories and
\* the local storage as they were and emit nothing; openAdrBy returns
\* undefined.
C12_SoftFailure ==
    [][ ( \/ /\ lastCall'.op = "openAdr"
             /\ \/ lastCall'.adr \notin ValidAdrs
                \/ Containing(lastCall'.adr) = {}
          \/ /\ lastCall'.op = "openAdrBy"
             /\ Matching(lastCall'.name, lastCall'.file) = {} )
        => /\ ~lastCall'.threw
           /\ UNCHANGED <<currentlyEditedAdr, currentRepository, currentBranch,
                          addedRepositories, adrObjs, repoObjs, localStorage>>
           /\ emitted' = <<>>
           /\ lastCall'.op = "openAdrBy" => lastCall'.ret = undefined
      ]_vars

\* openAdr was called with a valid ADR of a repository that is not added,
\* while another ADR was open
C12_Witness ==
    /\ lastCall.op = "openAdr"
    /\ lastCall.adr \in ValidAdrs
    /\ Containing(lastCall.adr) = {}
    /\ currentlyEditedAdr # undefined
    /\ currentlyEditedAdr # lastCall.adr

\* the positions, after the call, of the added repositories that have ADRs
WithAdrsAfter ==
    { i \in 1..Len(addedRepositories') :
        Len(repoObjs'[addedRepositories'[i]].adrs) > 0 }
\* assertSomeAdrIsOpened, run on the repositories the call leaves, finds
\* nothing open, the open ADR invalid, or the open ADR in no added repository
NeedsRepair ==
    \/ currentlyEditedAdr = undefined
    \/ currentlyEditedAdr \notin ValidAdrs
    \/ ContainingAfter(currentlyEditedAdr) = {}

\* C13: when assertSomeAdrIsOpened runs, directly or at the end of
\* addRepositories, removeRepository or deleteAdr, and finds nothing open, or
\* the open ADR invalid or in no added repository, the call leaves open the
\* first ADR of the first added repository that has ADRs, with that repository
\* as currentRepository and its activeBranch as currentBranch; with no ADR in
\* any added repository the three fields are left cleared.
C13_RepairRule ==
    [][ ( /\ lastCall'.op \in {"assertSomeAdrIsOpened", "addRepositories",
                               "removeRepository", "deleteAdr"}
          /\ ~lastCall'.threw
          /\ NeedsRepair )
        => IF WithAdrsAfter # {}
           THEN LET first == CHOOSE i \in WithAdrsAfter :
                                \A j \in WithAdrsAfter : i <= j
                    repo == addedRepositories'[first]
                IN  /\ currentlyEditedAdr' = repoObjs'[repo].adrs[1]
                    /\ currentRepository' = repo
                    /\ currentBranch' = repoObjs'[repo].activeBranch
           ELSE /\ currentlyEditedAdr' = undefined
                /\ currentRepository' = undefined
                /\ currentBranch' = undefinedBranch
      ]_vars

\* deleteAdr deleted the open ADR of the second of two added repositories that
\* have ADRs, and the first ADR of the first repository is open
C13_Witness ==
    /\ lastCall.op = "deleteAdr"
    /\ Len(addedRepositories) = 2
    /\ lastCall.repo = addedRepositories[2]
    /\ Containing(lastCall.adr) = {}
    /\ Len(repoObjs[addedRepositories[2]].adrs) > 0
    /\ emitted = <<OpenAdrEvent(repoObjs[addedRepositories[1]].adrs[1])>>
    /\ currentlyEditedAdr = repoObjs[addedRepositories[1]].adrs[1]
    /\ currentRepository = addedRepositories[1]

\* createNewAdr was called with a repository that is not added; it returned
\* undefined and left the heap, the added repositories and the selection alone
CreateNewAdrRefused ==
    /\ lastCall'.ret = undefined
    /\ ~lastCall'.threw
    /\ UNCHANGED <<adrObjs, repoObjs, addedRepositories, currentlyEditedAdr,
                   currentRepository, currentBranch>>
    /\ emitted' = <<>>

C15_AddedAdrsSubset ==
    \A r \in RepoRefs :
        "addedAdrs" \in DOMAIN repoObjs[r]
        => \A i \in 1..Len(repoObjs[r].addedAdrs) :
              includes(repoObjs[r].adrs, repoObjs[r].addedAdrs[i])

\* arr without its first element equal to x; arr itself when x is not in it
WithoutFirst(arr, x) ==
    IF \E i \in 1..Len(arr) : arr[i] = x
    THEN LET i == CHOOSE k \in 1..Len(arr) :
                    arr[k] = x /\ \A j \in 1..(k - 1) : arr[j] # x
         IN  SubSeq(arr, 1, i - 1) \o SubSeq(arr, i + 1, Len(arr))
    ELSE arr

\* C16: deleteAdr(adr, repo) removes from repo.adrs the first element that is
\* adr and nothing else; when adr is not in repo.adrs, repo.adrs is unchanged.
C16_DeleteAdrRemovesOnlyAdr ==
    [][ lastCall'.op = "deleteAdr"
        => repoObjs'[lastCall'.repo].adrs
             = WithoutFirst(repoObjs[lastCall'.repo].adrs, lastCall'.adr)
      ]_vars

Positions(str, c) == { i \in 1..Len(str) : str[i] = c }
\* the least and the greatest element of a non-empty set of integers, else d
LeastOr(S, d) == IF S = {} THEN d ELSE CHOOSE m \in S : \A x \in S : m <= x
GreatestOr(S, d) == IF S = {} THEN d ELSE Greatest(S)
\* the part of a path up to and with its last '/'
Directory(path) == SubSeq(path, 1, GreatestOr(Positions(path, "/"), 0))
\* the part of a path after its last '/'
FileName(path) ==
    SubSeq(path, GreatestOr(Positions(path, "/"), 0) + 1, Len(path))
\* the first line of a markdown text
FirstLine(md) == SubSeq(md, 1, LeastOr(Positions(md, "\n"), Len(md) + 1) - 1)
\* a line without its leading '#'s and without the white space around the rest
TitleOf(line) ==
    LET body == { i \in 1..Len(line) : \E j \in 1..i : line[j] # "#" }
        inked == { i \in body : line[i] \notin {" ", "\n", "\t"} }
    IN  IF inked = {} THEN <<>>
        ELSE SubSeq(line, LeastOr(inked, 0), GreatestOr(inked, 0))
\* name is NNNN-slug.md, NNNN four digits denoting id
IsTitledName(name, id, slug) ==
    /\ Len(name) = 4 + 1 + Len(slug) + 3
    /\ \A i \in 1..4 : \E d \in 1..10 : Digits[d] = name[i]
    /\ DecimalValue(SubSeq(name, 1, 4)) = id
    /\ name[5] = "-"
    /\ SubSeq(name, 6, 5 + Len(slug)) = slug
    /\ SubSeq(name, 6 + Len(slug), Len(name)) = <<".", "m", "d">>
\* the open ADR is one of the addedAdrs of currentRepository
IsLocallyAdded ==
    /\ currentRepository # undefined
    /\ "addedAdrs" \in DOMAIN repoObjs[currentRepository]
    /\ includes(repoObjs[currentRepository].addedAdrs, currentlyEditedAdr)

\* C18: updateMdOfCurrentAdr(md) with an ADR open sets editedMd of the open
\* ADR to md; when that ADR is among the addedAdrs of currentRepository, the
\* last segment of its path becomes the id padded to four digits, '-', the
\* slug of the first line of md and '.md', the directory staying; otherwise
\* its path stays.  Its id, every other ADR, the repositories, the list of
\* added repositories and the selection stay.
C18_UpdateMdFrame ==
    [][ ( /\ lastCall'.op = "updateMdOfCurrentAdr"
          /\ currentlyEditedAdr # undefined )
        => LET cur == currentlyEditedAdr
               old == adrObjs[cur]
               new == adrObjs'[cur]
           IN  /\ ~lastCall'.threw
               /\ Len(adrObjs') = Len(adrObjs)
               /\ \A a \in AdrRefs \ {cur} : adrObjs'[a] = adrObjs[a]
               /\ DOMAIN new = DOMAIN old
               /\ \A k \in DOMAIN old \ {"editedMd", "path"} : new[k] = old[k]
               /\ new.editedMd = lastCall'.md
               /\ IF IsLocallyAdded
                  THEN /\ Directory(new.path) = Directory(old.path)
                       /\ IsTitledName(FileName(new.path), old.id,
                              naturalCase2snakeCase(TitleOf(FirstLine(lastCall'.md))))
                  ELSE new.path = old.path
               /\ UNCHANGED <<repoObjs, addedRepositories, currentlyEditedAdr,
                              currentRepository, currentBranch>>
      ]_vars

\* updateMdOfCurrentAdr has renamed the open ADR, which createNewAdr created,
\* from NNNN-unnamed.md to NNNN-a-b.md
C18_Witness ==
    /\ lastCall.op = "updateMdOfCurrentAdr"
    /\ ~lastCall.threw
    /\ IsLocallyAdded
    /\ Directory(adrObjs[currentlyEditedAdr].path) = DocsAdr
    /\ IsTitledName(FileName(adrObjs[currentlyEditedAdr].path),
                    adrObjs[currentlyEditedAdr].id, <<"a", "-", "b">>)
    /\ adrObjs[currentlyEditedAdr].editedMd = lastCall.md

\* the serialization of the added repositories as the call leaves them
SnapshotAfter ==
    JSONstringify([adrObjs |-> adrObjs', repoObjs |-> repoObjs'],
                  addedRepositories')

OpenedAfter == SelectSeq(emitted', LAMBDA e : e.event = "open-adr")

\* C20: a call of a method that changes currentlyEditedAdr to an ADR emits
\* exactly one 'open-adr' event, carrying that ADR, and any other call emits
\* no 'open-adr' event; so whenever an ADR is open, it is the ADR of the last
\* 'open-adr' event emitted.
C20_NotificationsTrackSelection ==
    /\ [](currentlyEditedAdr # undefined
            => lastOpenAdrEvent = currentlyEditedAdr)
    /\ [][ lastCall'.op \notin {"idle", "created"}
           => IF /\ currentlyEditedAdr' # currentlyEditedAdr
                 /\ currentlyEditedAdr' # undefined
              THEN OpenedAfter = <<OpenAdrEvent(currentlyEditedAdr')>>
              ELSE OpenedAfter = <<>>
         ]_vars

\* updateRepository replaced the repository of the open ADR and opened the
\* ADR of the same path in the new one, emitting one event for it
C20_Witness ==
    /\ lastCall.op = "updateRepository"
    /\ ~lastCall.threw
    /\ currentlyEditedAdr # undefined
    /\ includes(repoObjs[lastCall.repo].adrs, currentlyEditedAdr)
    /\ emitted = <<OpenAdrEvent(currentlyEditedAdr)>>
    /\ lastOpenAdrEvent = currentlyEditedAdr

====
